---- MODULE Spec2Model ----
(***************************************************************************)
(* Renderer-side control engine of ControlPanel4GravityReduce:             *)
(*   - CommandButtonsManager / PowerSwitchesManager (power-switches.js)    *)
(*   - ConnectionManager / ProtocolHandler (connection-manager.js)         *)
(*   - SettingsManager (settings-manager.js)                               *)
(*   - the preload bridge (preload.js)                                     *)
(* The main process (main.js), the state manager, the event bus and the    *)
(* renderer wiring are not part of the sources; where a handler of the     *)
(* sources is driven by them, the driver is modelled from the design       *)
(* document and named as such.                                             *)
(***************************************************************************)
EXTENDS Integers, Sequences, FiniteSets, TLC

VARIABLES
    isConnected,               \* stateManager 'isConnected'
    currentProtocol,           \* stateManager 'currentProtocol'
    currentCommand,            \* stateManager 'currentCommand'
    waitingForAcknowledgment,  \* stateManager 'waitingForAcknowledgment'
    settingsProtocol,          \* SettingsManager.currentProtocol
    btnDisabled,               \* command buttons with disabled = true
    btnActive,                 \* command buttons carrying class 'active-command'
    switchDisabled,            \* switch -> its disabled attribute
    switchChecked,             \* switch -> its checked attribute
    inputs,                    \* value of the DOM inputs int-0 .. int-15
    storedProtocol,            \* localStorage 'protocol'
    storedInts,                \* localStorage 'int-0' .. 'int-15'
    sockets,                   \* main process: protocol -> number of live sockets
    discarded,                 \* id of the request last replaced while Pending (0: none)
    ipcQueue,                  \* main -> renderer events not yet delivered
    lastOp,                    \* the last operation and what it reported
    autoSendEnabled,           \* the 'Auto-Send (50Hz)' checkbox
    storedAutoSend,            \* localStorage 'auto-send-enabled'
    session,                   \* state of the transport session
    schedulerOn,               \* the transmission scheduler is running
    failCount,                 \* consecutive failed sends
    sendPending,               \* a tick has taken its snapshot and not yet sent it
    snapshot,                  \* the vector the last tick copied
    sentFrame,                 \* the last frame written to the transport
    timerRunning,              \* the tick timer is armed
    timerStart,                \* time at which it was started
    timerTarget,               \* target time of the next tick
    timerTicks,                \* ticks fired since the start
    timerFiredAt,              \* time at which the last tick fired
    rxWire,                    \* TCP bytes the peer has sent and the session has not read
    rxBuffer,                  \* bytes of an incomplete inbound frame
    rxSentFrames,              \* frames the peer has sent on this session
    rxFrames,                  \* frames the session has handed to the codec
    latestStatus,              \* Parameter Store: the latest StatusSnapshot
    codecIn,                   \* the vector last given to the encoder
    codecOut,                  \* the frame it produced
    codecBack,                 \* the vector the reverse decoder read from that frame
    decodeIn,                  \* the buffer last given to the decoder
    decodeOut,                 \* the StatusSnapshot it produced
    themeOf,                   \* window -> ThemeManager.currentTheme
    storedTheme,               \* localStorage 'theme'
    mainTheme,                 \* the theme the main process holds
    setThemeCalls,             \* 'set-theme' requests on their way to the main process
    themeChanged,              \* window -> 'theme-changed' events on their way to it
    themeToggles,              \* toggles made so far
    themeSent,                 \* messages sent so far, of both kinds
    logAttached,               \* Logger.logContainer is set
    logEntries,                \* children of the log container, oldest first
    maxLogEntries,             \* Logger.maxLogEntries
    logCount                   \* messages logged so far

vars == <<isConnected, currentProtocol, currentCommand, waitingForAcknowledgment,
          settingsProtocol, btnDisabled, btnActive, switchDisabled, switchChecked,
          inputs, storedProtocol, storedInts, sockets, ipcQueue, discarded, lastOp,
          autoSendEnabled, storedAutoSend, session, schedulerOn, failCount,
          sendPending, snapshot, sentFrame,
          timerRunning, timerStart, timerTarget, timerTicks, timerFiredAt,
          rxWire, rxBuffer, rxSentFrames, rxFrames, latestStatus, codecIn, codecOut,
          codecBack, decodeIn, decodeOut,
          themeOf, storedTheme, mainTheme, setThemeCalls, themeChanged, themeToggles,
          themeSent, logAttached, logEntries, maxLogEntries, logCount>>

cmdVars == <<currentCommand, waitingForAcknowledgment, btnDisabled, btnActive,
             switchDisabled, switchChecked>>
protoVars == <<currentProtocol, settingsProtocol>>
storeVars == <<storedProtocol, storedInts, storedAutoSend>>
tickVars == <<failCount, sendPending, snapshot, sentFrame>>
timerVars == <<timerRunning, timerStart, timerTarget, timerTicks, timerFiredAt>>
rxVars == <<rxWire, rxBuffer, rxSentFrames, rxFrames>>
encVars == <<codecIn, codecOut, codecBack>>
decVars == <<decodeIn, decodeOut>>
codecVars == <<latestStatus, encVars, decVars>>
themeVars == <<themeOf, storedTheme, mainTheme, setThemeCalls, themeChanged,
               themeToggles, themeSent>>
logVars == <<logAttached, logEntries, maxLogEntries, logCount>>
uiVars == <<themeVars, logVars>>
auxVars == <<timerVars, codecVars, uiVars>>
mainVars == <<sockets, ipcQueue, session, schedulerOn, tickVars, rxVars, auxVars>>
rendererVars == <<isConnected, protoVars, storeVars, cmdVars, inputs, discarded, lastOp,
                  autoSendEnabled>>
sessionVars == <<sockets, ipcQueue, session, schedulerOn, tickVars>>

----------------------------------------------------------------------------
(* Bounds *)

NumButtons == 2          \* command buttons of the page (24 in the product)
MaxQueue == 2            \* undelivered main -> renderer events
MaxParam == 1            \* parameter values typed by the operator: 0 .. MaxParam
MaxEditDist == 1         \* the operator edits int-10 .. int-(9 + MaxEditDist)
FailThreshold == 2       \* consecutive failed sends the scheduler absorbs
MaxTicks == 3            \* ticks of the timer that are followed
MaxLate == 25            \* a tick fires at most this long (ms) after its target
MaxStart == 1            \* the timer is started at a time in 0 .. MaxStart (ms)

(* Program constants *)

NumSlots == 16           \* int-0 .. int-15
Interval == 20           \* 50 Hz: one tick every 20 ms
CommandSlot == 9         \* int-9 is the command register

NoInt == 0 - 1           \* localStorage.getItem('int-i') of a key never set (null)
NoProtocol == "null"     \* localStorage.getItem('protocol') of a key never set
NoAutoSend == "null"     \* localStorage.getItem('auto-send-enabled') of a key never set

\* A StatusSnapshot: 40 flags and 10 integers; none before the first receipt.
StatusSnapshot(flags, ints) == [flags |-> flags, ints |-> ints]
NoStatus == StatusSnapshot(<<>>, <<>>)

\* What an operation leaves behind for its caller and in the log.
Report(op, arg, pre, tag, proto) ==
    [op |-> op, arg |-> arg, pre |-> pre, tag |-> tag, proto |-> proto]
StaleTag(stale) == IF stale THEN "stale" ELSE "fresh"

Buttons == 1 .. NumButtons
\* The axis-movement buttons (X+/X-/Y+/Y-/Z+/Z-) are the ones the documentation
\* calls sticky; the others are one-shot.
AxisButtons == {b \in Buttons : b % 2 = 0}
Switches == {"driver", "servo"}
Slots == 0 .. (NumSlots - 1)

\* parseInt(btn.dataset.cmd): every control carries its own nonzero id.
BtnCmd(b) == b
\* parseInt(isOn ? dataset.cmdOn : dataset.cmdOff)
SwitchCmd(s, isOn) ==
    NumButtons + (IF s = "driver" THEN 0 ELSE 2) + (IF isOn THEN 1 ELSE 2)
CommandIds == {BtnCmd(b) : b \in Buttons}
                \cup {SwitchCmd(s, on) : s \in Switches, on \in BOOLEAN}
EchoValues == {0} \cup CommandIds

OtherSwitch(s) == IF s = "driver" THEN "servo" ELSE "driver"

\* The methods contextBridge.exposeInMainWorld('electronAPI', ...) exposes.
ExposedMethods ==
    {"connect", "disconnect", "send", "sendCommand",
     "openSettings", "windowMinimize", "windowMaximize", "windowClose",
     "setTheme", "getTheme",
     "onConnectionStatus", "onDataReceived", "onThemeChanged"}

Protocols == {"tcp", "udp"}
\* Arguments a caller can hand to the protocol setters.
ProtocolArgs == {"tcp", "udp", "serial"}

----------------------------------------------------------------------------
(* Main process, modelled from the design document (main.js is not part of *)
(* the sources): one transport session, whose status changes and inbound   *)
(* frames are sent to the renderer as IPC events, delivered in order.      *)

Live == {k \in Protocols : sockets[k] > 0}
NumLive == sockets["tcp"] + sockets["udp"]

StatusEvent(connected, stale) ==
    [type |-> "status", connected |-> connected, echo |-> 0, stale |-> stale]
DataEvent(echo) ==
    [type |-> "data", connected |-> TRUE, echo |-> echo, stale |-> FALSE]

\* Every event still undelivered when a new session begins is an event of a
\* previous session.
MarkStale(q) == [i \in 1 .. Len(q) |-> [q[i] EXCEPT !.stale = TRUE]]

\* Tearing the prior session down closes its socket and reports the closure.
TornDownQueue == IF NumLive > 0 THEN Append(ipcQueue, StatusEvent(FALSE, FALSE)) ELSE ipcQueue

\* The sockets after a connect request of the given kind: the prior session is
\* fully torn down before the new socket is created.
MainOpenSockets_NoTeardown(kind, ok) ==
    IF ok THEN [sockets EXCEPT ![kind] = @ + 1] ELSE sockets
MainOpenSockets(kind, ok) ==
    [k \in Protocols |-> IF ok /\ k = kind THEN 1 ELSE 0]

\* Tearing a session down abandons its pending reads.
AbandonReads ==
    /\ rxWire' = <<>>
    /\ rxBuffer' = <<>>
    /\ rxSentFrames' = <<>>
    /\ rxFrames' = <<>>

\* Stopping the scheduler abandons the send in flight and forgets the failures.
StopScheduler ==
    /\ schedulerOn' = FALSE
    /\ failCount' = 0
    /\ sendPending' = FALSE
    /\ UNCHANGED <<snapshot, sentFrame, auxVars>>

\* The scheduler starts on a successful connect, if auto-send is enabled.
StartScheduler_Always(ok) ==
    /\ schedulerOn' = TRUE
    /\ failCount' = 0
    /\ sendPending' = FALSE
    /\ UNCHANGED <<snapshot, sentFrame, auxVars>>
StartScheduler(ok) ==
    /\ schedulerOn' = (ok /\ autoSendEnabled)
    /\ failCount' = 0
    /\ sendPending' = FALSE
    /\ UNCHANGED <<snapshot, sentFrame, auxVars>>

\* 'tcp-connect' / 'udp-connect': tear down, then connect; ok is the outcome.
MainHandleConnect(kind, ok) ==
    /\ Len(ipcQueue) + 2 <= MaxQueue
    /\ sockets' = MainOpenSockets(kind, ok)
    /\ ipcQueue' = IF ok THEN Append(MarkStale(TornDownQueue), StatusEvent(TRUE, FALSE))
                         ELSE TornDownQueue
    /\ session' = IF ok THEN "Connected" ELSE "Disconnected"
    /\ StartScheduler(ok)
    /\ AbandonReads

\* 'tcp-disconnect' / 'udp-disconnect': close the socket of that kind.
MainHandleDisconnect(kind) ==
    /\ Len(ipcQueue) < MaxQueue
    /\ sockets' = [sockets EXCEPT ![kind] = 0]
    /\ ipcQueue' = IF sockets[kind] > 0 THEN Append(ipcQueue, StatusEvent(FALSE, FALSE))
                                        ELSE ipcQueue
    /\ IF sockets[kind] > 0
       THEN session' = "Disconnected" /\ StopScheduler /\ AbandonReads
       ELSE UNCHANGED <<session, schedulerOn, tickVars, rxVars, auxVars>>

\* 'set-protocol': disconnects whatever is connected.
MainHandleSetProtocol ==
    /\ Len(ipcQueue) < MaxQueue
    /\ sockets' = [k \in Protocols |-> 0]
    /\ ipcQueue' = TornDownQueue
    /\ session' = "Disconnected"
    /\ StopScheduler
    /\ AbandonReads

----------------------------------------------------------------------------
(* PowerSwitchesManager *)

\* enableAll(): both switches are enabled, but only if stateManager says connected.
EnableAll_Always(connected) == [s \in Switches |-> FALSE]
EnableAll(connected) ==
    IF connected THEN [s \in Switches |-> FALSE] ELSE switchDisabled

\* disableAll()
DisableAll == [s \in Switches |-> TRUE]

\* handleConnectionStatus(connected), with the value stateManager holds for
\* 'isConnected' when it runs.
HandleConnectionStatus(connected, stateConnected) ==
    IF connected THEN EnableAll(stateConnected) ELSE DisableAll

\* setCommand(commandId, commandName): stateManager and the int-9 input.
SetCommand_KeepPending(commandId) ==
    LET id == IF waitingForAcknowledgment /\ commandId # 0 THEN currentCommand ELSE commandId
    IN  /\ currentCommand' = id
        /\ inputs' = [inputs EXCEPT ![CommandSlot] = id]
SetCommand(commandId) ==
    /\ currentCommand' = commandId
    /\ inputs' = [inputs EXCEPT ![CommandSlot] = commandId]

\* What an issued request replaces: the Pending id, or nothing.
PendingId == IF waitingForAcknowledgment THEN currentCommand ELSE 0

\* e.target.checked = !e.target.checked, on the value the toggle gave it.
RevertSwitch_Kept(checked) == checked
RevertSwitch(checked) == ~checked

\* handleSwitchChange: the 'change' event of a switch (a disabled input fires
\* none); the toggle has inverted e.target.checked before the handler runs.
HandleSwitchChange(s) ==
    /\ ~switchDisabled[s]
    /\ IF ~isConnected
       THEN /\ switchChecked' = [switchChecked EXCEPT ![s] = RevertSwitch(~switchChecked[s])]
            /\ lastOp' = Report("rejected", SwitchCmd(s, ~switchChecked[s]), 0, "", "")
            /\ UNCHANGED <<currentCommand, waitingForAcknowledgment, btnDisabled, btnActive,
                           switchDisabled, inputs, discarded>>
       ELSE LET isOn == ~switchChecked[s]
                commandId == SwitchCmd(s, isOn)
            IN  /\ switchChecked' = [switchChecked EXCEPT ![s] = isOn]
                /\ btnDisabled' = Buttons
                /\ switchDisabled' = [switchDisabled EXCEPT ![OtherSwitch(s)] = TRUE]
                /\ waitingForAcknowledgment' = TRUE
                /\ SetCommand(commandId)
                /\ discarded' = PendingId
                /\ lastOp' = Report("issue", commandId, PendingId, "", "")
                /\ UNCHANGED btnActive
    /\ UNCHANGED <<isConnected, protoVars, storeVars, mainVars, autoSendEnabled>>

\* 'power-switches:enable' on the event bus: enableAll().
PowerSwitchesEnable ==
    /\ switchDisabled' = EnableAll(isConnected)
    /\ lastOp' = Report("enableAll", 0, 0, "", "")
    /\ UNCHANGED <<currentCommand, waitingForAcknowledgment, btnDisabled, btnActive,
                   switchChecked, inputs, discarded>>
    /\ UNCHANGED <<isConnected, protoVars, storeVars, mainVars, autoSendEnabled>>

----------------------------------------------------------------------------
(* CommandButtonsManager *)

\* handleCommandClick: the 'click' event of a button (a disabled button fires none).
HandleCommandClick(b) ==
    /\ b \notin btnDisabled
    /\ IF ~isConnected
       THEN /\ lastOp' = Report("rejected", BtnCmd(b), 0, "", "")
            /\ UNCHANGED <<cmdVars, inputs, discarded>>
       ELSE /\ btnActive' = {b}
            /\ btnDisabled' = btnDisabled \cup (Buttons \ {b})
            /\ switchDisabled' = DisableAll
            /\ waitingForAcknowledgment' = TRUE
            /\ SetCommand(BtnCmd(b))
            /\ discarded' = PendingId
            /\ lastOp' = Report("issue", BtnCmd(b), PendingId, "", "")
            /\ UNCHANGED switchChecked
    /\ UNCHANGED <<isConnected, protoVars, storeVars, mainVars, autoSendEnabled>>

\* handleAcknowledgment: clearActiveButtons, enableAllButtons,
\* 'power-switches:enable', setWaitingForAcknowledgment(false), clearCommand.
HandleAcknowledgment_NoClear ==
    /\ btnActive' = {}
    /\ btnDisabled' = {}
    /\ switchDisabled' = EnableAll(isConnected)
    /\ waitingForAcknowledgment' = FALSE
    /\ UNCHANGED <<currentCommand, inputs>>
HandleAcknowledgment ==
    /\ btnActive' = {}
    /\ btnDisabled' = {}
    /\ switchDisabled' = EnableAll(isConnected)
    /\ waitingForAcknowledgment' = FALSE
    /\ SetCommand(0)

----------------------------------------------------------------------------
(* Delivery of the main process's events to the renderer.                  *)

\* The renderer's status handler (not part of the sources; from the design
\* document): the echo is compared to the id of the Pending request.
EchoMatches_AnyEcho(echo) == waitingForAcknowledgment /\ echo # 0
EchoMatches(echo) == waitingForAcknowledgment /\ echo = currentCommand

\* onDataReceived: a status frame reaches the renderer.
OnDataReceived ==
    /\ ipcQueue # <<>>
    /\ Head(ipcQueue).type = "data"
    /\ ipcQueue' = Tail(ipcQueue)
    /\ LET ev == Head(ipcQueue)
       IN  IF EchoMatches(ev.echo)
           THEN /\ HandleAcknowledgment
                /\ discarded' = 0
                /\ lastOp' = Report("ack", ev.echo, 0, StaleTag(ev.stale), "")
           ELSE /\ lastOp' = Report("data", ev.echo, 0, StaleTag(ev.stale), "")
                /\ UNCHANGED <<currentCommand, waitingForAcknowledgment, btnDisabled,
                               btnActive, switchDisabled, inputs, discarded>>
    /\ UNCHANGED <<isConnected, protoVars, storeVars, sockets, switchChecked,
                   autoSendEnabled, session, schedulerOn, tickVars,
                   rxVars, auxVars>>

\* ConnectionManager.handleConnectionStatusUpdate, registered with
\* onConnectionStatus; CONNECTION_STATUS on the event bus reaches
\* PowerSwitchesManager.handleConnectionStatus.
HandleConnectionStatusUpdate_AutoReconnect ==
    /\ ipcQueue # <<>>
    /\ Head(ipcQueue).type = "status"
    /\ ipcQueue' = Tail(ipcQueue)
    /\ LET ev == Head(ipcQueue)
       IN  /\ isConnected' = ev.connected
           /\ switchDisabled' = HandleConnectionStatus(ev.connected, ev.connected)
           /\ lastOp' = Report("status", IF ev.connected THEN 1 ELSE 0, 0, StaleTag(ev.stale), "")
           /\ session' = IF ~ev.connected /\ session \in {"Disconnected", "Faulted"}
                         THEN "Connecting" ELSE session
    /\ UNCHANGED <<currentCommand, waitingForAcknowledgment, btnDisabled, btnActive,
                   switchChecked, inputs, discarded, protoVars, storeVars, sockets,
                   autoSendEnabled, schedulerOn, tickVars, rxVars, auxVars>>
HandleConnectionStatusUpdate ==
    /\ ipcQueue # <<>>
    /\ Head(ipcQueue).type = "status"
    /\ ipcQueue' = Tail(ipcQueue)
    /\ LET ev == Head(ipcQueue)
       IN  /\ isConnected' = ev.connected
           /\ switchDisabled' = HandleConnectionStatus(ev.connected, ev.connected)
           /\ lastOp' = Report("status", IF ev.connected THEN 1 ELSE 0, 0, StaleTag(ev.stale), "")
    /\ UNCHANGED <<currentCommand, waitingForAcknowledgment, btnDisabled, btnActive,
                   switchChecked, inputs, discarded, protoVars, storeVars, sockets,
                   autoSendEnabled, session, schedulerOn, tickVars,
                   rxVars, auxVars>>

----------------------------------------------------------------------------
(* ConnectionManager *)

\* The bridge method connect() / disconnect() call for a protocol value.
ConnectMethod(protocol) == IF protocol = "tcp" THEN "tcpConnect" ELSE "udpConnect"
DisconnectMethod(protocol) == IF protocol = "tcp" THEN "tcpDisconnect" ELSE "udpDisconnect"
\* The transport a bridge method addresses in the main process.
MethodKind(method) == IF method \in {"tcpConnect", "tcpDisconnect", "connect", "disconnect"}
                      THEN "tcp" ELSE "udp"

\* connect(settings): validSettings says whether host/port (TCP) or listening
\* port/target (UDP) are all present and nonzero. Calling a method the bridge
\* does not expose throws a TypeError, which connect() catches.
\* What connect() reports: arg counts the CONNECTION_STATUS {connected: true}
\* events it emitted, pre the CONNECTION_ERROR events, tag says how it ended.
\* The try block: the result of the transport is returned.
ConnectReturn(ok) ==
    Report("connect", IF ok THEN 1 ELSE 0, IF ok THEN 0 ELSE 1,
           IF ok THEN "success" ELSE "failed", currentProtocol)
\* The catch block: CONNECTION_ERROR, return {success: false}.
ConnectCatch_Rethrow(cause) == Report("connect", 0, 0, "thrown", currentProtocol)
ConnectCatch(cause) == Report("connect", 0, 1, cause, currentProtocol)

Connect(validSettings) ==
    LET method == ConnectMethod(currentProtocol)
    IN  /\ IF validSettings /\ method \in ExposedMethods
           THEN \E ok \in BOOLEAN :
                  /\ MainHandleConnect(MethodKind(method), ok)
                  /\ switchDisabled' = IF ok THEN HandleConnectionStatus(TRUE, isConnected)
                                             ELSE switchDisabled
                  /\ lastOp' = ConnectReturn(ok)
           ELSE /\ lastOp' = ConnectCatch(IF validSettings THEN "noMethod" ELSE "invalid")
                /\ UNCHANGED <<mainVars, switchDisabled>>
        /\ UNCHANGED <<isConnected, protoVars, storeVars, currentCommand, inputs,
                       waitingForAcknowledgment, btnDisabled, btnActive, switchChecked,
                       discarded, autoSendEnabled>>

\* disconnect(): rethrows what the bridge call throws.
Disconnect ==
    LET method == DisconnectMethod(currentProtocol)
    IN  /\ IF method \in ExposedMethods
           THEN /\ MainHandleDisconnect(MethodKind(method))
                /\ switchDisabled' = HandleConnectionStatus(FALSE, isConnected)
                /\ lastOp' = Report("disconnect", 0, 0, "done", currentProtocol)
           ELSE /\ lastOp' = Report("disconnect", 0, 0, "noMethod", currentProtocol)
                /\ UNCHANGED <<mainVars, switchDisabled>>
        /\ UNCHANGED <<isConnected, protoVars, storeVars, currentCommand, inputs,
                       waitingForAcknowledgment, btnDisabled, btnActive, switchChecked,
                       discarded, autoSendEnabled>>

----------------------------------------------------------------------------
(* ProtocolHandler *)

\* Whether the renderer and the main process agree that a TCP session is up.
ConnectedOn(kind) == isConnected /\ currentProtocol = kind /\ sockets[kind] > 0
SessionTag == IF ConnectedOn("tcp") THEN "connectedTcp"
              ELSE IF ConnectedOn("udp") THEN "connectedUdp" ELSE "other"

\* stateManager's currentProtocol after a switch that did not succeed: it is
\* set in the success branch only.
ProtocolAfterFailedSwitch_Optimistic(newProtocol) == newProtocol
ProtocolAfterFailedSwitch(newProtocol) == currentProtocol

\* switchProtocol(newProtocol). In its report arg counts the PROTOCOL_CHANGED
\* events emitted and pre says whether the main process was reached (1) or
\* not (0).
SwitchProtocol(newProtocol) ==
    /\ IF newProtocol = currentProtocol
       THEN /\ lastOp' = Report("switchProtocol", 0, 0, "same", newProtocol)
            /\ UNCHANGED <<currentProtocol, mainVars>>
       ELSE IF newProtocol \notin Protocols
       THEN /\ lastOp' = Report("switchProtocol", 0, 0, "invalid", newProtocol)
            /\ UNCHANGED <<currentProtocol, mainVars>>
       ELSE IF "setProtocol" \in ExposedMethods
       THEN \E ok \in BOOLEAN :
              IF ok
              THEN /\ MainHandleSetProtocol
                   /\ currentProtocol' = newProtocol
                   /\ lastOp' = Report("switchProtocol", 1, 1, SessionTag, newProtocol)
              ELSE \* result.success false: the main process refuses
                   /\ currentProtocol' = ProtocolAfterFailedSwitch(newProtocol)
                   /\ lastOp' = Report("switchProtocol", 0, 1, SessionTag, newProtocol)
                   /\ UNCHANGED mainVars
       ELSE \* TypeError, caught: { success: false }
            /\ currentProtocol' = ProtocolAfterFailedSwitch(newProtocol)
            /\ lastOp' = Report("switchProtocol", 0, 0, SessionTag, newProtocol)
            /\ UNCHANGED mainVars
    /\ UNCHANGED <<isConnected, settingsProtocol, storeVars, cmdVars, inputs, discarded,
                   autoSendEnabled>>

\* setProtocolFromSettings(protocol)
SetProtocolFromSettings(protocol) ==
    /\ currentProtocol' = IF protocol \in Protocols THEN protocol ELSE currentProtocol
    /\ lastOp' = Report("setProtocolFromSettings", 0, 0, SessionTag, protocol)
    /\ UNCHANGED <<isConnected, settingsProtocol, storeVars, cmdVars, inputs, discarded,
                   mainVars, autoSendEnabled>>

----------------------------------------------------------------------------
(* SettingsManager *)

\* setCurrentProtocol(protocol)
SetCurrentProtocol(protocol) ==
    /\ settingsProtocol' = protocol
    /\ currentProtocol' = protocol
    /\ lastOp' = Report("setCurrentProtocol", 0, 0, SessionTag, protocol)
    /\ UNCHANGED <<isConnected, storeVars, cmdVars, inputs, discarded, mainVars,
                   autoSendEnabled>>

\* loadSettings: the int-i loop, int-9 left out.
LoadInts_AllSlots ==
    [i \in Slots |-> IF storedInts[i] # NoInt THEN storedInts[i] ELSE inputs[i]]
LoadInts ==
    [i \in Slots |-> IF i # CommandSlot /\ storedInts[i] # NoInt
                     THEN storedInts[i] ELSE inputs[i]]

\* saveSettings: the int-i loop, int-9 left out.
SaveInts == [i \in Slots |-> IF i # CommandSlot THEN inputs[i] ELSE storedInts[i]]

\* loadSettings(elements)
LoadSettings ==
    /\ IF storedProtocol \in Protocols
       THEN settingsProtocol' = storedProtocol /\ currentProtocol' = storedProtocol
       ELSE UNCHANGED protoVars
    /\ inputs' = LoadInts
    /\ autoSendEnabled' = IF storedAutoSend # NoAutoSend THEN storedAutoSend = "true"
                                                         ELSE autoSendEnabled
    /\ lastOp' = Report("loadSettings", 0, 0, SessionTag, storedProtocol)
    /\ UNCHANGED <<isConnected, storeVars, cmdVars, discarded, mainVars>>

\* saveSettings(elements)
SaveSettings ==
    /\ storedProtocol' = settingsProtocol
    /\ storedInts' = SaveInts
    /\ storedAutoSend' = IF autoSendEnabled THEN "true" ELSE "false"
    /\ lastOp' = Report("saveSettings", 0, 0, SessionTag, settingsProtocol)
    /\ UNCHANGED <<isConnected, protoVars, cmdVars, inputs, discarded, mainVars,
                   autoSendEnabled>>

----------------------------------------------------------------------------
(* Generic parameter input (the input handlers are not part of the sources; *)
(* from the design document): the operator types a value into int-i; the    *)
(* command register is not among the slots edited this way.                  *)

EditSlots == {i \in Slots : i > CommandSlot /\ i - CommandSlot <= MaxEditDist}
ParamValues == 0 .. MaxParam

SetParameter(slot, value) ==
    /\ inputs[slot] # value
    /\ inputs' = [inputs EXCEPT ![slot] = value]
    /\ lastOp' = Report("setParameter", slot, value, "", "")
    /\ UNCHANGED <<isConnected, protoVars, storeVars, cmdVars, discarded, mainVars,
                   autoSendEnabled>>

\* setValue(slot, value) of the Parameter Store, validated: slot in [0,16),
\* value in [0,65535]; anything else is rejected.
ValueRange == 0 .. 65535
SetValue(slot, value) ==
    /\ IF slot \in Slots /\ value \in ValueRange
       THEN /\ inputs' = [inputs EXCEPT ![slot] = value]
            /\ lastOp' = Report("setValue", slot, value, "", "")
       ELSE /\ inputs' = inputs
            /\ lastOp' = Report("setValue", slot, value, "rejected", "")
    /\ UNCHANGED <<isConnected, protoVars, storeVars, cmdVars, discarded, mainVars,
                   autoSendEnabled>>

\* Arguments of setValue: slots and values inside, at the ends of and just
\* outside their ranges.
SlotArgs == {0 - 1, 0, CommandSlot + 1, NumSlots - 1, NumSlots}
ValueArgs == {0 - 1, 0, 65535, 65536}

----------------------------------------------------------------------------
(* Requests that reach the main process through the methods the bridge      *)
(* does expose, and what happens to a session on its own.                   *)

\* electronAPI.connect(host, port) -> 'tcp-connect'
ElectronApiConnect ==
    /\ "connect" \in ExposedMethods
    /\ \E ok \in BOOLEAN :
         /\ MainHandleConnect(MethodKind("connect"), ok)
    /\ UNCHANGED <<isConnected, protoVars, storeVars, cmdVars, inputs, discarded, lastOp,
                   autoSendEnabled>>

\* electronAPI.disconnect() -> 'tcp-disconnect'
ElectronApiDisconnect ==
    /\ "disconnect" \in ExposedMethods
    /\ NumLive > 0
    /\ MainHandleDisconnect(MethodKind("disconnect"))
    /\ UNCHANGED <<isConnected, protoVars, storeVars, cmdVars, inputs, discarded, lastOp,
                   autoSendEnabled>>

\* The peer closes the connection, or an I/O error ends it.
MainConnectionLost ==
    /\ NumLive > 0
    /\ Len(ipcQueue) < MaxQueue
    /\ sockets' = [k \in Protocols |-> 0]
    /\ ipcQueue' = Append(ipcQueue, StatusEvent(FALSE, FALSE))
    /\ session' = "Faulted"
    /\ StopScheduler
    /\ AbandonReads
    /\ UNCHANGED <<isConnected, protoVars, storeVars, cmdVars, inputs, discarded, lastOp,
                   autoSendEnabled>>

\* A status frame of the controller arrives on the live session.
MainFrameReceived(echo) ==
    /\ NumLive > 0
    /\ Len(ipcQueue) < MaxQueue
    /\ ipcQueue' = Append(ipcQueue, DataEvent(echo))
    /\ UNCHANGED <<isConnected, protoVars, storeVars, cmdVars, inputs, discarded,
                   sockets, lastOp, autoSendEnabled, session, schedulerOn, tickVars,
                   rxVars, auxVars>>

----------------------------------------------------------------------------
(* Frame codec, outbound: Int2Byte of the documentation, applied to the 16  *)
(* integers in slot order.                                                  *)

\* bytes[0] = (0xff00 & i) >> 8;  bytes[1] = 0xff & i
Int2Byte_LowFirst(i) == << i % 256, (i % 65536) \div 256 >>
Int2Byte(i) == << (i % 65536) \div 256, i % 256 >>

RECURSIVE EncodeFrom(_, _)
EncodeFrom(vector, i) ==
    IF i = NumSlots THEN <<>> ELSE Int2Byte(vector[i]) \o EncodeFrom(vector, i + 1)
Encode(vector) == EncodeFrom(vector, 0)

\* Length of an outbound frame (README, 'Sent Data').
SentFrameLen == 32

\* Values at the ends of the range and on both sides of a byte boundary.
SampleValues == {0, 1, 255, 256, 257, 65534, 65535}
\* Vectors with one value in one slot and another in every other slot.
TestVectors ==
    {[i \in Slots |-> IF i = a THEN v ELSE w] : a \in Slots, v \in SampleValues, w \in SampleValues}

\* The sender encodes a vector.
EncodeVector(vector) ==
    /\ codecIn' = vector
    /\ codecOut' = Encode(vector)
    /\ codecBack' = <<>>
    /\ UNCHANGED <<latestStatus, decVars>>
    /\ UNCHANGED <<rendererVars, sessionVars, rxVars, timerVars, uiVars>>

\* The reverse codec: a big-endian 16-bit value from its two bytes, and the
\* vector of an outbound frame.
Byte2Int_LowFirst(high, low) == low * 256 + high
Byte2Int(high, low) == high * 256 + low
DecodeVector(frame) == [i \in Slots |-> Byte2Int(frame[2 * i + 1], frame[2 * i + 2])]

\* The frame last encoded is decoded with the reverse codec.
ReverseDecode ==
    /\ codecOut # <<>>
    /\ codecBack = <<>>
    /\ codecBack' = DecodeVector(codecOut)
    /\ UNCHANGED <<codecIn, codecOut, latestStatus, decVars>>
    /\ UNCHANGED <<rendererVars, sessionVars, rxVars, timerVars, uiVars>>

----------------------------------------------------------------------------
(* Transmission scheduler and the session's connect in progress, modelled   *)
(* from the design document (renderer.js and main.js are not part of the    *)
(* sources).                                                                *)

\* The operator toggles the 'Auto-Send (50Hz)' checkbox.
ToggleAutoSend ==
    /\ autoSendEnabled' = ~autoSendEnabled
    /\ schedulerOn' = (~autoSendEnabled /\ session = "Connected")
    /\ failCount' = 0
    /\ sendPending' = FALSE
    /\ lastOp' = Report("toggleAutoSend", 0, 0, "", "")
    /\ UNCHANGED <<isConnected, protoVars, storeVars, cmdVars, inputs, discarded,
                   sockets, ipcQueue, session, snapshot, sentFrame, rxVars, auxVars>>

\* A tick: snapshotForSend() copies the vector; the send is then in flight.
Tick ==
    /\ schedulerOn
    /\ ~sendPending
    /\ snapshot' = inputs
    /\ sendPending' = TRUE
    /\ lastOp' = Report("tick", 0, 0, "", "")
    /\ UNCHANGED <<isConnected, protoVars, storeVars, cmdVars, inputs, discarded,
                   sockets, ipcQueue, session, schedulerOn, failCount, sentFrame,
                   autoSendEnabled, rxVars, auxVars>>

\* The failure count after a send.
FailCountAfter_NoReset(ok) == IF ok THEN failCount ELSE failCount + 1
FailCountAfter(ok) == IF ok THEN 0 ELSE failCount + 1

\* What a tick's send encodes.
FrameToSend_LiveVector == Encode(inputs)
FrameToSend == Encode(snapshot)

\* The send of the tick in flight completes: written, or failed and skipped;
\* failures past the threshold become a connection-lost event.
SendFrame(ok) ==
    /\ sendPending
    /\ IF FailCountAfter(ok) > FailThreshold
       THEN /\ Len(ipcQueue) < MaxQueue
            /\ sockets' = [k \in Protocols |-> 0]
            /\ ipcQueue' = Append(ipcQueue, StatusEvent(FALSE, FALSE))
            /\ session' = "Faulted"
            /\ StopScheduler
            /\ AbandonReads
            /\ lastOp' = Report("send", failCount + 1, 0, "lost", "")
       ELSE /\ sentFrame' = IF ok THEN FrameToSend ELSE sentFrame
            /\ failCount' = FailCountAfter(ok)
            /\ sendPending' = FALSE
            /\ lastOp' = Report("send", FailCountAfter(ok), 0,
                                IF ok THEN "ok" ELSE "failed", "")
            /\ UNCHANGED <<sockets, ipcQueue, session, schedulerOn, snapshot, rxVars,
                           auxVars>>
    /\ UNCHANGED <<isConnected, protoVars, storeVars, cmdVars, inputs, discarded,
                   autoSendEnabled>>

\* 'tcp-connect', the attempt made visible: the prior session is torn down
\* and the session is Connecting until the outcome is known.
SessionConnectBegin ==
    /\ "connect" \in ExposedMethods
    /\ session # "Connecting"
    /\ Len(ipcQueue) + 2 <= MaxQueue
    /\ sockets' = [k \in Protocols |-> 0]
    /\ ipcQueue' = MarkStale(TornDownQueue)
    /\ session' = "Connecting"
    /\ StopScheduler
    /\ AbandonReads
    /\ UNCHANGED <<isConnected, protoVars, storeVars, cmdVars, inputs, discarded, lastOp,
                   autoSendEnabled>>

SessionConnectEnd(ok) ==
    /\ session = "Connecting"
    /\ sockets' = MainOpenSockets(MethodKind("connect"), ok)
    /\ ipcQueue' = IF ok THEN Append(ipcQueue, StatusEvent(TRUE, FALSE)) ELSE ipcQueue
    /\ session' = IF ok THEN "Connected" ELSE "Disconnected"
    /\ StartScheduler(ok)
    /\ UNCHANGED rxVars
    /\ UNCHANGED <<isConnected, protoVars, storeVars, cmdVars, inputs, discarded, lastOp,
                   autoSendEnabled>>

----------------------------------------------------------------------------
(* The timer that paces the ticks, modelled from the design document        *)
(* (section 4.4). Time is in milliseconds.                                  *)

\* The target of the tick after the one whose target was `target` and which
\* fired at time `now`.
NextTarget_FromNow(target, now) == now + Interval
NextTarget(target, now) == target + Interval

\* The timer is started at time t0.
TimerStart(t0) ==
    /\ ~timerRunning
    /\ timerRunning' = TRUE
    /\ timerStart' = t0
    /\ timerFiredAt' = t0
    /\ timerTicks' = 0
    /\ timerTarget' = NextTarget(t0, t0)
    /\ UNCHANGED <<rendererVars, sessionVars, rxVars, codecVars, uiVars>>

\* The timer fires `late` ms after the target of the tick that is due; time
\* does not run backwards.
TimerFire(late) ==
    /\ timerRunning
    /\ timerTicks < MaxTicks
    /\ timerTarget + late >= timerFiredAt
    /\ timerFiredAt' = timerTarget + late
    /\ timerTicks' = timerTicks + 1
    /\ timerTarget' = NextTarget(timerTarget, timerTarget + late)
    /\ UNCHANGED <<timerRunning, timerStart>>
    /\ UNCHANGED <<rendererVars, sessionVars, rxVars, codecVars, uiVars>>

\* The timer is stopped.
TimerStop ==
    /\ timerRunning
    /\ timerRunning' = FALSE
    /\ UNCHANGED <<timerStart, timerTarget, timerTicks, timerFiredAt>>
    /\ UNCHANGED <<rendererVars, sessionVars, rxVars, codecVars, uiVars>>

----------------------------------------------------------------------------
(* Inbound path: the frame codec's decoder and the session's reads, modelled *)
(* from the design document (sections 4.1 and 4.3) over the frame layout of  *)
(* the README.                                                               *)

\* Length of an inbound frame (README, 'Received Data').
FrameLen == 26
NumFlags == 40
NumStatusInts == 10

\* Frames the peer sends on one session, and the contents of the datagrams.
MaxFrames == 3
MaxDatagramKinds == 2
\* How far the length of a datagram strays from that of a frame.
MaxLenDelta == 1

\* A buffer of the given length; every byte tells its position and its tag.
Buffer(len, tag) == [n \in 1 .. len |-> (tag * 32 + n) % 256]
Frame(tag) == Buffer(FrameLen, tag)
DatagramKinds == 1 .. MaxDatagramKinds

\* Datagrams: empty, a little short, exact, a little long, two frames long.
DatagramLens == {0, 2 * FrameLen} \union ((FrameLen - MaxLenDelta) .. (FrameLen + MaxLenDelta))
TestDatagrams == {Buffer(len, tag) : len \in DatagramLens, tag \in DatagramKinds}

Bit(byte, k) == (byte \div (2 ^ k)) % 2

\* Flag 8b + k is bit k of byte b, from the least-significant bit; integer j
\* is bytes 6 + 2j and 7 + 2j, big-endian; byte 5 is not read.
DecodeFlags_MsbFirst(buf) ==
    [f \in 1 .. NumFlags |-> Bit(buf[((f - 1) \div 8) + 1], 7 - ((f - 1) % 8)) = 1]
DecodeFlags(buf) == [f \in 1 .. NumFlags |-> Bit(buf[((f - 1) \div 8) + 1], (f - 1) % 8) = 1]
DecodeInts(buf) == [j \in 1 .. NumStatusInts |-> buf[5 + 2 * j] * 256 + buf[6 + 2 * j]]

\* Decode: a StatusSnapshot, or the error MalformedFrame and no snapshot.
Decode_AtLeast(buf) ==
    IF Len(buf) < FrameLen
    THEN [error |-> "MalformedFrame", status |-> NoStatus]
    ELSE [error |-> "", status |-> StatusSnapshot(DecodeFlags(buf), DecodeInts(buf))]
Decode(buf) ==
    IF Len(buf) # FrameLen
    THEN [error |-> "MalformedFrame", status |-> NoStatus]
    ELSE [error |-> "", status |-> StatusSnapshot(DecodeFlags(buf), DecodeInts(buf))]

\* Byte values with one bit set, with several, with all; 14 is the 0xe of the
\* README's example.
ByteSamples == {1, 2, 4, 8, 14, 16, 32, 64, 128, 255}
\* Buffers of a frame's length with one byte set, and the datagrams.
OneByte(pos, val) == [n \in 1 .. FrameLen |-> IF n = pos THEN val ELSE 0]
DecodeBuffers ==
    TestDatagrams \union {OneByte(pos, val) : pos \in 1 .. FrameLen, val \in ByteSamples}

\* The codec decodes a buffer.
DecodeBuffer(buf) ==
    /\ decodeIn' = buf
    /\ decodeOut' = Decode(buf).status
    /\ UNCHANGED <<latestStatus, encVars>>
    /\ UNCHANGED <<rendererVars, sessionVars, rxVars, timerVars, uiVars>>

\* The complete frames at the head of the bytes read so far, and what is left
\* of them: the bytes of an incomplete frame.
RECURSIVE CompleteFrames(_)
CompleteFrames(data) ==
    IF Len(data) < FrameLen THEN <<>>
    ELSE <<SubSeq(data, 1, FrameLen)>> \o CompleteFrames(SubSeq(data, FrameLen + 1, Len(data)))
Remainder_Dropped(data) == <<>>
Remainder(data) == SubSeq(data, Len(data) - (Len(data) % FrameLen) + 1, Len(data))

\* The peer writes one more frame to the TCP stream; every frame of a stream
\* differs from the others.
PeerSendsFrame ==
    /\ session = "Connected"
    /\ sockets["tcp"] > 0
    /\ Len(rxSentFrames) < MaxFrames
    /\ LET frame == Frame(Len(rxSentFrames) + 1)
       IN /\ rxWire' = rxWire \o frame
          /\ rxSentFrames' = Append(rxSentFrames, frame)
    /\ UNCHANGED <<rxBuffer, rxFrames>>
    /\ UNCHANGED <<rendererVars, sessionVars, timerVars, codecVars, uiVars>>

\* One read of the TCP socket returns the next n bytes of the stream. The
\* session hands every frame it can complete to the codec, and the store takes
\* the snapshot of each; the rest is buffered.
TcpChunkReceived(n) ==
    /\ session = "Connected"
    /\ sockets["tcp"] > 0
    /\ n \in 1 .. Len(rxWire)
    /\ LET data == rxBuffer \o SubSeq(rxWire, 1, n)
           frames == CompleteFrames(data)
       IN /\ rxFrames' = rxFrames \o frames
          /\ rxBuffer' = Remainder(data)
          /\ latestStatus' = IF frames = <<>> THEN latestStatus
                             ELSE Decode(frames[Len(frames)]).status
    /\ rxWire' = SubSeq(rxWire, n + 1, Len(rxWire))
    /\ UNCHANGED <<rxSentFrames, encVars, decVars>>
    /\ UNCHANGED <<rendererVars, sessionVars, timerVars, uiVars>>

\* 'udp-connect' of the main process: the session in UDP mode.
MainUdpConnect(ok) ==
    /\ MainHandleConnect("udp", ok)
    /\ UNCHANGED <<isConnected, protoVars, storeVars, cmdVars, inputs, discarded, lastOp,
                   autoSendEnabled>>

\* A datagram arrives on the UDP socket: one candidate frame. A malformed one
\* is dropped and logged.
UdpDatagramReceived(buf) ==
    /\ session = "Connected"
    /\ sockets["udp"] > 0
    /\ LET r == Decode(buf)
       IN /\ latestStatus' = IF r.error = "" THEN r.status ELSE latestStatus
          /\ lastOp' = Report("datagram", Len(buf), 0,
                              IF r.error = "" THEN "decoded" ELSE r.error, "udp")
    /\ UNCHANGED <<isConnected, protoVars, storeVars, cmdVars, inputs, discarded,
                   autoSendEnabled>>
    /\ UNCHANGED <<sessionVars, rxVars, timerVars, encVars, decVars, uiVars>>

----------------------------------------------------------------------------

(* ThemeManager, one in every window, and the main process between them.   *)
(* The 'set-theme' handler of the main process is not part of the sources:  *)
(* it keeps the theme and sends 'theme-changed' to the other windows, and   *)
(* maybe to the sender as well.                                             *)

NumWindows == 2          \* windows open, each with its ThemeManager
MaxToggles == 2          \* toggles that are followed

Windows == 1 .. NumWindows
Themes == {"dark", "bright"}

\* toggleTheme: this.currentTheme === 'dark' ? 'bright' : 'dark'
OtherTheme(theme) == IF theme = "dark" THEN "bright" ELSE "dark"

\* saveTheme(theme): localStorage, and setTheme on the bridge if it is there.
SaveTheme(w, theme) ==
    /\ storedTheme' = theme
    /\ IF "setTheme" \in ExposedMethods
       THEN /\ setThemeCalls' = Append(setThemeCalls, [from |-> w, theme |-> theme])
            /\ themeSent' = themeSent + 1
       ELSE UNCHANGED <<setThemeCalls, themeSent>>

\* applyTheme(theme, shouldBroadcast)
ApplyTheme(w, theme, shouldBroadcast) ==
    /\ themeOf' = [themeOf EXCEPT ![w] = theme]
    /\ IF shouldBroadcast
       THEN SaveTheme(w, theme)
       ELSE storedTheme' = theme /\ UNCHANGED <<setThemeCalls, themeSent>>

\* toggleTheme() in window w.
ToggleTheme(w) ==
    /\ themeToggles < MaxToggles
    /\ themeToggles' = themeToggles + 1
    /\ ApplyTheme(w, OtherTheme(themeOf[w]), TRUE)
    /\ UNCHANGED <<mainTheme, themeChanged, logVars>>
    /\ UNCHANGED <<rendererVars, sessionVars, rxVars, timerVars, codecVars>>

\* 'set-theme' in the main process; echo: the sender is notified as well.
MainSetTheme(echo) ==
    /\ setThemeCalls # <<>>
    /\ LET req == Head(setThemeCalls)
           targets == IF echo THEN Windows ELSE Windows \ {req.from}
       IN  /\ mainTheme' = req.theme
           /\ themeChanged' = [w \in Windows |-> IF w \in targets
                                                  THEN Append(themeChanged[w], req.theme)
                                                  ELSE themeChanged[w]]
           /\ themeSent' = themeSent + Cardinality(targets)
    /\ setThemeCalls' = Tail(setThemeCalls)
    /\ UNCHANGED <<themeOf, storedTheme, themeToggles, logVars>>
    /\ UNCHANGED <<rendererVars, sessionVars, rxVars, timerVars, codecVars>>

\* The second argument of applyTheme in the onThemeChanged listener.
ListenerBroadcasts_Back == TRUE
ListenerBroadcasts == FALSE

\* The onThemeChanged listener of window w.
OnThemeChanged(w) ==
    /\ themeChanged[w] # <<>>
    /\ themeChanged' = [themeChanged EXCEPT ![w] = Tail(@)]
    /\ LET theme == Head(themeChanged[w])
       IN  IF theme # themeOf[w]
           THEN ApplyTheme(w, theme, ListenerBroadcasts)
           ELSE UNCHANGED <<themeOf, storedTheme, setThemeCalls, themeSent>>
    /\ UNCHANGED <<mainTheme, themeToggles, logVars>>
    /\ UNCHANGED <<rendererVars, sessionVars, rxVars, timerVars, codecVars>>

----------------------------------------------------------------------------
(* Logger *)

DefaultMaxEntries == 100 \* this.maxLogEntries = 100
MaxLogs == 5             \* messages that are logged
MaxLimit == 3            \* setMaxEntries is given a limit in 0 .. MaxLimit

\* init(container)
LoggerInit ==
    /\ ~logAttached
    /\ logAttached' = TRUE
    /\ UNCHANGED <<logEntries, maxLogEntries, logCount, themeVars>>
    /\ UNCHANGED <<rendererVars, sessionVars, rxVars, timerVars, codecVars>>

\* setMaxEntries(max)
SetMaxEntries(max) ==
    /\ maxLogEntries' = max
    /\ UNCHANGED <<logAttached, logEntries, logCount, themeVars>>
    /\ UNCHANGED <<rendererVars, sessionVars, rxVars, timerVars, codecVars>>

\* trimLogEntries(): while (children.length > maxLogEntries) removeChild(firstChild)
\* removeChild(this.logContainer.firstChild)
RemoveFirstChild_Last(entries) == SubSeq(entries, 1, Len(entries) - 1)
RemoveFirstChild(entries) == Tail(entries)

RECURSIVE TrimLogEntries(_, _)
TrimLogEntries(entries, max) ==
    IF Len(entries) > max THEN TrimLogEntries(RemoveFirstChild(entries), max) ELSE entries

\* log(message, type): the messages are numbered in logging order.
Log ==
    /\ logCount < MaxLogs
    /\ logCount' = logCount + 1
    /\ logEntries' = IF logAttached
                     THEN TrimLogEntries(Append(logEntries, logCount + 1), maxLogEntries)
                     ELSE logEntries
    /\ UNCHANGED <<logAttached, maxLogEntries, themeVars>>
    /\ UNCHANGED <<rendererVars, sessionVars, rxVars, timerVars, codecVars>>

\* clear()
ClearLog ==
    /\ logAttached
    /\ logEntries # <<>>
    /\ logEntries' = <<>>
    /\ UNCHANGED <<logAttached, maxLogEntries, logCount, themeVars>>
    /\ UNCHANGED <<rendererVars, sessionVars, rxVars, timerVars, codecVars>>

----------------------------------------------------------------------------

\* localStorage outlives the program: an int-9 entry may be there already
\* (written by another version of the page), with any value.
LeftoverInts ==
    {[i \in Slots |-> IF i = CommandSlot THEN v ELSE NoInt] : v \in {NoInt, MaxParam}}

\* The state after construction, over what localStorage holds for int-i.
InitStore(ints) ==
    /\ isConnected = FALSE
    /\ currentProtocol = "tcp"
    /\ currentCommand = 0
    /\ waitingForAcknowledgment = FALSE
    /\ settingsProtocol = "tcp"
    /\ btnDisabled = {}
    /\ btnActive = {}
    /\ switchDisabled = [s \in Switches |-> FALSE]
    /\ switchChecked = [s \in Switches |-> FALSE]
    /\ inputs = [i \in Slots |-> 0]
    /\ storedProtocol = NoProtocol
    /\ storedInts = ints
    /\ sockets = [k \in Protocols |-> 0]
    /\ ipcQueue = <<>>
    /\ discarded = 0
    /\ lastOp = Report("init", 0, 0, "", "")
    /\ autoSendEnabled = TRUE
    /\ storedAutoSend = NoAutoSend
    /\ session = "Disconnected"
    /\ schedulerOn = FALSE
    /\ failCount = 0
    /\ sendPending = FALSE
    /\ snapshot = [i \in Slots |-> 0]
    /\ sentFrame = <<>>
    /\ timerRunning = FALSE
    /\ timerStart = 0
    /\ timerTarget = 0
    /\ timerTicks = 0
    /\ timerFiredAt = 0
    /\ rxWire = <<>>
    /\ rxBuffer = <<>>
    /\ rxSentFrames = <<>>
    /\ rxFrames = <<>>
    /\ latestStatus = NoStatus
    /\ codecIn = [i \in Slots |-> 0]
    /\ codecOut = <<>>
    /\ codecBack = <<>>
    /\ decodeIn = <<>>
    /\ decodeOut = NoStatus
    /\ themeOf = [w \in Windows |-> "dark"]
    /\ storedTheme = "dark"
    /\ mainTheme = "dark"
    /\ setThemeCalls = <<>>
    /\ themeChanged = [w \in Windows |-> <<>>]
    /\ themeToggles = 0
    /\ themeSent = 0
    /\ logAttached = FALSE
    /\ logEntries = <<>>
    /\ maxLogEntries = DefaultMaxEntries
    /\ logCount = 0

\* First start: localStorage is empty.
Init == InitStore([i \in Slots |-> NoInt])

\* A later start, over what an earlier run left in localStorage.
InitLeftover == \E ints \in LeftoverInts : InitStore(ints)

\* A later start over an int-i entry that holds a number no 16-bit slot can
\* hold: localStorage keeps whatever string was stored under the key.
StaleInts ==
    {[i \in Slots |-> IF i = CommandSlot + 1 THEN v ELSE NoInt] : v \in {NoInt, 0, 65535, 65536}}
InitStale == \E ints \in StaleInts : InitStore(ints)

\* Operator actions on the command controls.
CommandActions ==
    \/ \E b \in Buttons : HandleCommandClick(b)
    \/ \E s \in Switches : HandleSwitchChange(s)

\* Events on the renderer's event bus.
BusActions == PowerSwitchesEnable

\* Events of the main process reaching the renderer.
DeliveryActions ==
    \/ OnDataReceived
    \/ HandleConnectionStatusUpdate

\* The main process and the session.
MainActions ==
    \/ ElectronApiConnect
    \/ ElectronApiDisconnect
    \/ MainConnectionLost
    \/ \E e \in EchoValues : MainFrameReceived(e)

\* Connection and protocol requests of the renderer.
ConnectionActions ==
    \/ \E v \in BOOLEAN : Connect(v)
    \/ Disconnect
    \/ \E p \in ProtocolArgs : SwitchProtocol(p)
    \/ \E p \in ProtocolArgs : SetProtocolFromSettings(p)
    \/ \E p \in ProtocolArgs : SetCurrentProtocol(p)

\* Settings persistence and parameter input.
SettingsActions ==
    \/ LoadSettings
    \/ SaveSettings
    \/ \E i \in EditSlots, v \in ParamValues : SetParameter(i, v)

\* The scheduler and the connect in progress.
SchedulerActions ==
    \/ SessionConnectBegin
    \/ \E ok \in BOOLEAN : SessionConnectEnd(ok)
    \/ ToggleAutoSend
    \/ Tick
    \/ \E ok \in BOOLEAN : SendFrame(ok)

\* The tick timer.
TimerActions ==
    \/ \E t0 \in 0 .. MaxStart : TimerStart(t0)
    \/ \E late \in 0 .. MaxLate : TimerFire(late)
    \/ TimerStop

\* Writes to the parameter vector.
VectorActions ==
    \/ \E slot \in SlotArgs, value \in ValueArgs : SetValue(slot, value)
    \/ LoadSettings
    \/ SaveSettings

\* The theme, in the windows and in the main process.
ThemeActions ==
    \/ \E w \in Windows : ToggleTheme(w)
    \/ \E echo \in BOOLEAN : MainSetTheme(echo)
    \/ \E w \in Windows : OnThemeChanged(w)

\* The logger.
LoggerActions ==
    \/ LoggerInit
    \/ \E max \in (0 .. MaxLimit) \cup {DefaultMaxEntries} : SetMaxEntries(max)
    \/ Log
    \/ ClearLog

\* The encoder.
CodecActions ==
    \/ \E vector \in TestVectors : EncodeVector(vector)
    \/ ReverseDecode

\* The decoder.
DecoderActions == \E buf \in DecodeBuffers : DecodeBuffer(buf)

\* The inbound path: the TCP stream, the UDP datagrams.
StreamActions ==
    \/ PeerSendsFrame
    \/ \E n \in 1 .. (MaxFrames * FrameLen) : TcpChunkReceived(n)
DatagramActions ==
    \/ \E ok \in BOOLEAN : MainUdpConnect(ok)
    \/ \E buf \in TestDatagrams : UdpDatagramReceived(buf)

Next ==
    \/ TimerActions
    \/ StreamActions
    \/ DatagramActions
    \/ CodecActions
    \/ DecoderActions
    \/ BusActions
    \/ ThemeActions
    \/ LoggerActions
    \/ VectorActions
    \/ CommandActions
    \/ DeliveryActions
    \/ MainActions
    \/ ConnectionActions
    \/ SettingsActions
    \/ SchedulerActions

Spec == Init /\ [][Next]_vars

\* The command/acknowledgment engine with the session that drives it.
NextCommand ==
    \/ CommandActions
    \/ DeliveryActions
    \/ MainActions
SpecCommand == Init /\ [][NextCommand]_vars

\* The connection and protocol lifecycle.
NextConnection ==
    \/ ConnectionActions
    \/ LoadSettings
    \/ SaveSettings
    \/ DeliveryActions
    \/ MainActions
SpecConnection == Init /\ [][NextConnection]_vars

\* Settings persistence and parameter input, with the commands that write int-9.
\* Only the buttons issue commands here, so the frames echo a button's id: the
\* id that is pending (a match) or another one (no match).
NextSettings ==
    \/ SettingsActions
    \/ \E b \in Buttons : HandleCommandClick(b)
    \/ DeliveryActions
    \/ ElectronApiConnect
    \/ \E b \in Buttons : MainFrameReceived(BtnCmd(b))
SpecSettings == InitLeftover /\ [][NextSettings]_vars

\* The transmission scheduler over the session's lifecycle, with the operator
\* writing the vector.
NextScheduler ==
    \/ SessionConnectBegin
    \/ \E ok \in BOOLEAN : SessionConnectEnd(ok)
    \/ ElectronApiDisconnect
    \/ MainConnectionLost
    \/ ToggleAutoSend
    \/ Tick
    \/ \E ok \in BOOLEAN : SendFrame(ok)
    \/ \E i \in EditSlots, v \in ParamValues : SetParameter(i, v)
    \/ HandleConnectionStatusUpdate
SpecScheduler == Init /\ [][NextScheduler]_vars

\* The cadence of the ticks.
SpecCadence == Init /\ [][TimerActions]_vars

\* The parameter vector under setValue and the settings, over what
\* localStorage holds at the start.
SpecVector == InitStale /\ [][VectorActions]_vars

\* The power switches over the session's lifecycle as the renderer sees it.
NextSwitches ==
    \/ CommandActions
    \/ BusActions
    \/ DeliveryActions
    \/ ElectronApiConnect
    \/ MainConnectionLost
    \/ \E b \in Buttons : MainFrameReceived(BtnCmd(b))
SpecSwitches == Init /\ [][NextSwitches]_vars

\* The theme over the windows.
SpecTheme == Init /\ [][ThemeActions]_vars

\* The logger over its calls.
SpecLogger == Init /\ [][LoggerActions]_vars

\* The encoder over its inputs.
SpecCodec == Init /\ [][CodecActions]_vars

\* The decoder over its inputs.
SpecDecode == Init /\ [][DecoderActions]_vars

\* The TCP stream over the session's lifecycle.
NextStream ==
    \/ StreamActions
    \/ SessionConnectBegin
    \/ \E ok \in BOOLEAN : SessionConnectEnd(ok)
    \/ MainConnectionLost
    \/ HandleConnectionStatusUpdate
SpecStream == Init /\ [][NextStream]_vars

\* The UDP datagrams over the session's lifecycle.
NextDatagram ==
    \/ DatagramActions
    \/ MainConnectionLost
    \/ HandleConnectionStatusUpdate
SpecDatagram == Init /\ [][NextDatagram]_vars

\* The session's lifecycle as the renderer drives and sees it: connection
\* requests, fatal conditions, status events, the command controls, the ticks.
NextLifecycle ==
    \/ \E v \in BOOLEAN : Connect(v)
    \/ Disconnect
    \/ SessionConnectBegin
    \/ \E ok \in BOOLEAN : SessionConnectEnd(ok)
    \/ ElectronApiDisconnect
    \/ MainConnectionLost
    \/ HandleConnectionStatusUpdate
    \/ CommandActions
    \/ Tick
    \/ \E ok \in BOOLEAN : SendFrame(ok)
SpecLifecycle == Init /\ [][NextLifecycle]_vars

----------------------------------------------------------------------------
(* Command/acknowledgment engine: C1 - C5, checked under SpecCommand.      *)

OneShotIds == {BtnCmd(b) : b \in Buttons \ AxisButtons}
AxisIds == {BtnCmd(b) : b \in AxisButtons}
ButtonOf(id) == CHOOSE b \in Buttons : BtnCmd(b) = id

Idle == currentCommand = 0 /\ inputs[CommandSlot] = 0 /\ ~waitingForAcknowledgment
AllControlsEnabled == btnDisabled = {} /\ \A s \in Switches : ~switchDisabled[s]

\* A step that delivers the status frame at the head of the queue.
DataDelivered ==
    /\ ipcQueue # <<>>
    /\ Head(ipcQueue).type = "data"
    /\ ipcQueue' = Tail(ipcQueue)

\* The part of the engine a status frame could touch.
EngineUnchanged ==
    /\ UNCHANGED <<currentCommand, waitingForAcknowledgment, btnDisabled, btnActive,
                   switchDisabled, switchChecked>>
    /\ inputs'[CommandSlot] = inputs[CommandSlot]

\* C1: once the echo of a one-shot button command has been acknowledged, the
\* engine is Idle (command slot 0, not waiting), no button is marked active,
\* and every command button and both switches are enabled.
C1_OneShotResolution ==
    (lastOp.op = "ack" /\ lastOp.arg \in OneShotIds)
        => (Idle /\ btnActive = {} /\ AllControlsEnabled)

C1_Witness == lastOp.op = "ack" /\ lastOp.arg \in OneShotIds

\* C2: once the echo of a sticky (axis-movement) command has been
\* acknowledged, the request is resolved but the command slot still holds its
\* id and the issuing button is still marked active.
C2_StickyResolution ==
    (lastOp.op = "ack" /\ lastOp.arg \in AxisIds)
        => /\ ~waitingForAcknowledgment
           /\ currentCommand = lastOp.arg
           /\ inputs[CommandSlot] = lastOp.arg
           /\ ButtonOf(lastOp.arg) \in btnActive

\* C3: a request issued while another is Pending replaces it outright (the
\* engine is Pending on the new id alone), and a later echo of the replaced id
\* causes no transition.
C3_Superseding ==
    [][ /\ (lastOp'.op = "issue" /\ lastOp' # lastOp)
            => /\ waitingForAcknowledgment'
               /\ currentCommand' = lastOp'.arg
               /\ inputs'[CommandSlot] = lastOp'.arg
        /\ (/\ DataDelivered
            /\ waitingForAcknowledgment
            /\ discarded # 0
            /\ Head(ipcQueue).echo = discarded
            /\ discarded # currentCommand)
            => EngineUnchanged ]_vars

C3_Witness ==
    /\ lastOp.op = "data"
    /\ discarded # 0
    /\ lastOp.arg = discarded
    /\ waitingForAcknowledgment
    /\ currentCommand # discarded

\* C4: while a command is Pending the command slot holds its id, every command
\* button other than the issuing one is disabled, and both switches are
\* disabled.
C4_PendingDisablesConflicting ==
    waitingForAcknowledgment
        => /\ currentCommand \in CommandIds
           /\ inputs[CommandSlot] = currentCommand
           /\ \A b \in Buttons : BtnCmd(b) # currentCommand => b \in btnDisabled
           /\ \A s \in Switches : switchDisabled[s]

\* C5: a status frame whose echo is not the Pending id, and any status frame
\* arriving while nothing is Pending, leaves the engine as it was.
C5_NoMismatchPath ==
    [][ (DataDelivered
            /\ ~(waitingForAcknowledgment /\ Head(ipcQueue).echo = currentCommand))
            => EngineUnchanged ]_vars

C5_Witness ==
    /\ lastOp.op = "data"
    /\ lastOp.arg # 0
    /\ waitingForAcknowledgment
    /\ lastOp.arg # currentCommand

----------------------------------------------------------------------------
(* Parameter store and settings: C6, checked under SpecSettings.           *)

OtherSlots == Slots \ {CommandSlot}

\* C6: int-9 changes only when a command is issued or acknowledged; its
\* localStorage entry is never written; loadSettings restores, and saveSettings
\* persists, each of the 15 other slots.
C6_CommandSlotFrame ==
    [][ /\ inputs'[CommandSlot] # inputs[CommandSlot] => lastOp'.op \in {"issue", "ack"}
        /\ storedInts'[CommandSlot] = storedInts[CommandSlot]
        /\ lastOp'.op = "saveSettings"
            => \A i \in OtherSlots : storedInts'[i] = inputs'[i]
        /\ lastOp'.op = "loadSettings"
            => \A i \in OtherSlots : storedInts'[i] # NoInt => inputs'[i] = storedInts'[i]
      ]_vars

\* loadSettings has run with an int-9 entry in localStorage that differs from
\* the command register, and has restored a typed value into another slot.
C6_Witness ==
    /\ lastOp.op = "loadSettings"
    /\ storedInts[CommandSlot] # NoInt
    /\ storedInts[CommandSlot] # inputs[CommandSlot]
    /\ \E i \in OtherSlots : storedInts[i] = MaxParam /\ inputs[i] = MaxParam

----------------------------------------------------------------------------
(* Transport session and protocol: C7 - C10, checked under SpecConnection. *)

\* C7: switchProtocol('udp') requested while Connected on TCP tears the TCP
\* session down: when it returns no session is live (so no UDP connect attempt
\* and no frame can precede the disconnect).
C7_SwitchForcesDisconnect ==
    [][ (/\ lastOp'.op = "switchProtocol"
         /\ lastOp' # lastOp
         /\ lastOp'.proto = "udp"
         /\ lastOp'.tag = "connectedTcp")
            => NumLive' = 0 ]_vars

\* C8: at most one transport session is live.
C8_AtMostOneSession == NumLive <= 1

\* A connect request has arrived with a session live: the prior session's
\* closure is still queued and one session is live.
C8_Witness ==
    /\ NumLive = 1
    /\ \E i \in 1 .. Len(ipcQueue) :
         /\ ipcQueue[i].type = "status"
         /\ ~ipcQueue[i].connected
         /\ ipcQueue[i].stale

\* C9: currentProtocol does not change while a session is Connected.
C9_ProtocolFixedWhileConnected ==
    [][ (isConnected /\ NumLive > 0 /\ isConnected' /\ NumLive' > 0)
            => currentProtocol' = currentProtocol ]_vars

\* C10: no event of a previous session is applied once a new session has begun.
C10_NoLateEvents ==
    ~(lastOp.op \in {"status", "data", "ack"} /\ lastOp.tag = "stale")


----------------------------------------------------------------------------
(* Session lifecycle: C11, C13, C14, checked under SpecLifecycle.          *)

\* C11: when disconnect() returns, isConnected is false, no session is live
\* and the scheduler is stopped with no send in flight; a command button click
\* or switch toggle that follows it is rejected as not connected.
C11_DisconnectImmediateTotal ==
    [][ /\ (lastOp'.op = "disconnect" /\ lastOp' # lastOp)
            => (~isConnected' /\ NumLive' = 0 /\ ~schedulerOn' /\ ~sendPending')
        /\ (lastOp.op = "disconnect" /\ lastOp' # lastOp)
            => lastOp'.op # "issue" ]_vars

----------------------------------------------------------------------------
(* Transmission scheduler: C12, C15, C16, checked under SpecScheduler.     *)

\* A step in which a tick fires (the snapshot is taken).
TickFired == ~sendPending /\ sendPending' /\ lastOp'.op = "tick"
\* A step in which the send of a tick completes.
SendCompleted == sendPending /\ ~sendPending' /\ lastOp'.op = "send"
\* A step in which the session becomes Connected.
ConnectSucceeded == session # "Connected" /\ session' = "Connected"

\* The scheduler is stopped in every state in which the session is not
\* Connected, and a tick fires, and its send completes, only while it is.
OnlyWhileConnected ==
    /\ session' # "Connected" => (~schedulerOn' /\ ~sendPending')
    /\ TickFired => (session = "Connected" /\ NumLive = 1)
    /\ SendCompleted => (session = "Connected" /\ NumLive = 1)

----------------------------------------------------------------------------
(* Session lifecycle, continued: C13, C14 (SpecLifecycle).                 *)

NotLive == {"Disconnected", "Faulted"}

\* C13: a session that is Disconnected or Faulted leaves that state only by a
\* step that is an explicit connect request, and a socket comes to life only
\* out of the Connecting state such a request has entered.
C13_NoSilentReconnect ==
    [][ /\ (session \in NotLive /\ session' \notin NotLive) => SessionConnectBegin
        /\ NumLive' > NumLive => session = "Connecting" ]_vars

\* The renderer has handled the loss of a session, which is still Faulted.
C13_Witness ==
    /\ session = "Faulted"
    /\ lastOp.op = "status"
    /\ lastOp.arg = 0
    /\ ~isConnected

\* A step in which a fatal condition ends a session or a connection attempt.
FatalCondition == session \notin NotLive /\ session' \in NotLive

\* What C14 says of the fatal conditions themselves: the session is torn down
\* and the scheduler stopped; once the event reporting it is handled
\* isConnected is false; and with every event handled, isConnected true means
\* a live session.
FatalLeavesDisconnected ==
    /\ FatalCondition => (NumLive' = 0 /\ ~schedulerOn' /\ ~sendPending')
    /\ (lastOp'.op = "status" /\ lastOp'.arg = 0 /\ ipcQueue' # ipcQueue) => ~isConnected'
    /\ (ipcQueue' = <<>> /\ isConnected') => NumLive' > 0

\* A connect() call with valid settings made in the Disconnected state.
FreshConnectAttempt ==
    /\ ~isConnected
    /\ session \in NotLive
    /\ lastOp'.op = "connect"
    /\ lastOp' # lastOp
    /\ lastOp'.tag # "invalid"

\* C14: every fatal condition leaves the system Disconnected (isConnected
\* false, scheduler stopped, no isConnected without a live session), and a
\* fresh connect attempt made there is accepted: it reaches the transport,
\* which decides its outcome.
C14_FatalLeavesDisconnected ==
    [][ /\ FatalLeavesDisconnected
        /\ FreshConnectAttempt => lastOp'.tag \in {"success", "failed"} ]_vars

----------------------------------------------------------------------------
(* Transmission scheduler, continued: C15, C16 (SpecScheduler).            *)

\* C15: a failed send writes nothing, is not retried, counts one more
\* consecutive failure and leaves the session Connected with the scheduler
\* running; a successful send resets the count; the failure that takes the
\* count past the threshold raises a connection-lost event and stops the
\* scheduler, so the count never exceeds the threshold.
C15_SendFailures ==
    [][ /\ (SendCompleted /\ lastOp'.tag = "failed")
            => /\ sentFrame' = sentFrame
               /\ failCount' = failCount + 1
               /\ session = "Connected" /\ session' = "Connected"
               /\ schedulerOn'
               /\ ipcQueue' = ipcQueue
        /\ (SendCompleted /\ lastOp'.tag = "ok") => failCount' = 0
        /\ (SendCompleted /\ lastOp'.tag = "lost")
            => /\ failCount + 1 > FailThreshold
               /\ session' = "Faulted"
               /\ ~schedulerOn'
               /\ ipcQueue' = Append(ipcQueue, StatusEvent(FALSE, FALSE))
        /\ failCount' <= FailThreshold ]_vars

\* The failures went past the threshold after at least one frame was sent.
C15_Witness ==
    /\ lastOp.op = "send"
    /\ lastOp.tag = "lost"
    /\ session = "Faulted"
    /\ sentFrame # <<>>

\* C16: the snapshot a tick takes is the whole vector as it stands at that
\* instant; no step changes it while its send is in flight, whatever the
\* operator writes meanwhile; and the frame sent encodes exactly that snapshot.
C16_TornFreeSnapshot ==
    [][ /\ TickFired => snapshot' = inputs
        /\ (sendPending /\ sendPending') => snapshot' = snapshot
        /\ (SendCompleted /\ lastOp'.tag = "ok") => sentFrame' = Encode(snapshot) ]_vars

\* A frame was sent after the operator changed the vector between the tick's
\* snapshot and its send.
C16_Witness ==
    /\ lastOp.op = "send"
    /\ lastOp.tag = "ok"
    /\ snapshot # inputs
    /\ sentFrame = Encode(snapshot)

----------------------------------------------------------------------------
(* Cadence: C17, checked under SpecCadence.                                *)

\* C17: after k ticks the target of the next tick is start + (k + 1) *
\* interval, however late the ticks before it fired; so the k-th tick fired no
\* later than its own lateness after start + k * interval, and over k ticks the
\* targets advance by k intervals exactly.
C17_DriftFreeCadence ==
    timerRunning
        => /\ timerTarget = timerStart + (timerTicks + 1) * Interval
           /\ timerTicks > 0
                => /\ timerFiredAt >= timerStart + timerTicks * Interval
                   /\ timerFiredAt <= timerStart + timerTicks * Interval + MaxLate

\* Several ticks have fired, the last one later than a whole interval.
C17_Witness ==
    /\ timerRunning
    /\ timerTicks >= 2
    /\ timerFiredAt > timerStart + (timerTicks + 1) * Interval

----------------------------------------------------------------------------
(* Inbound path: C18 checked under SpecStream, C19 under SpecDatagram.      *)

RECURSIVE Concat(_)
Concat(frames) == IF frames = <<>> THEN <<>> ELSE Head(frames) \o Concat(Tail(frames))

\* Bytes of this session's stream that the session has read.
BytesRead == Len(Concat(rxSentFrames)) - Len(rxWire)

\* C18: TCP reassembly. Whatever the sizes of the reads, the frames handed to
\* the codec are the frames of the stream that have been read completely, in
\* stream order and each of exactly 26 bytes; the bytes read of the frame that
\* is still incomplete are buffered until the rest arrives. Once the whole
\* stream of k frames is read, exactly those k frames have been handed over.
C18_TcpReassembly ==
    /\ \A i \in 1 .. Len(rxFrames) : Len(rxFrames[i]) = FrameLen
    /\ Len(rxFrames) = BytesRead \div FrameLen
    /\ rxFrames = SubSeq(rxSentFrames, 1, Len(rxFrames))
    /\ Concat(rxFrames) \o rxBuffer \o rxWire = Concat(rxSentFrames)
    /\ Len(rxBuffer) < FrameLen
    /\ (rxWire = <<>> => rxFrames = rxSentFrames /\ rxBuffer = <<>>)

\* C18 witness: two different frames were handed over and part of a third is
\* buffered, its rest not yet read.
C18_Witness ==
    /\ Len(rxFrames) >= 2
    /\ rxFrames[1] # rxFrames[2]
    /\ rxBuffer # <<>>
    /\ rxWire # <<>>

\* A step that receives a datagram and reports on it.
DatagramReceived == lastOp' # lastOp /\ lastOp'.op = "datagram"

WholeSnapshot(st) == Len(st.flags) = NumFlags /\ Len(st.ints) = NumStatusInts

\* C19: malformed inbound frames. Decoding a buffer whose length is not 26
\* fails with MalformedFrame and yields no StatusSnapshot; a datagram of such
\* a length leaves the latest StatusSnapshot as it was and the UDP session
\* Connected; the latest StatusSnapshot is only ever replaced by a whole one.
C19_MalformedInbound ==
    [][ /\ \A buf \in TestDatagrams :
             Len(buf) # FrameLen =>
                 Decode(buf).error = "MalformedFrame" /\ Decode(buf).status = NoStatus
        /\ DatagramReceived /\ lastOp'.arg # FrameLen =>
              /\ lastOp'.tag = "MalformedFrame"
              /\ latestStatus' = latestStatus
              /\ session' = "Connected"
              /\ sockets' = sockets
              /\ ipcQueue' = ipcQueue
        /\ latestStatus' # latestStatus => WholeSnapshot(latestStatus')
      ]_vars

\* C19 witness: a malformed datagram was dropped on a Connected UDP session
\* that holds a snapshot decoded earlier.
C19_Witness ==
    /\ lastOp.op = "datagram"
    /\ lastOp.tag = "MalformedFrame"
    /\ lastOp.arg > FrameLen
    /\ latestStatus # NoStatus
    /\ session = "Connected"
    /\ sockets["udp"] > 0

----------------------------------------------------------------------------
(* Frame codec: C20, checked under SpecCodec.                               *)

\* C20: outbound encoding. The frame encoded from a vector of 16 values in
\* 0..65535 has exactly 32 bytes: byte 2i is value[i] div 256 and byte 2i+1
\* is value[i] mod 256, for i in 0..15, and there is nothing else in it.
C20_OutboundEncoding ==
    codecOut # <<>> =>
        /\ \A i \in Slots : codecIn[i] \in 0 .. 65535
        /\ Len(codecOut) = SentFrameLen
        /\ DOMAIN codecOut = 1 .. (2 * NumSlots)
        /\ \A i \in Slots :
              /\ codecOut[2 * i + 1] = codecIn[i] \div 256
              /\ codecOut[2 * i + 2] = codecIn[i] % 256

\* C20 witness: a vector was encoded whose values include the largest one and
\* one whose two bytes differ.
C20_Witness ==
    /\ codecOut # <<>>
    /\ \E i \in Slots : codecIn[i] = 65535
    /\ \E i \in Slots : codecIn[i] = 256

----------------------------------------------------------------------------
(* Frame codec: C21, checked under SpecDecode.                              *)

\* The byte that packs the eight flags of byte b, flag 8b + k weighing 2^k.
RECURSIVE PackedFrom(_, _, _)
PackedFrom(flags, b, k) ==
    IF k = 8 THEN 0
    ELSE (IF flags[8 * b + k + 1] THEN 2 ^ k ELSE 0) + PackedFrom(flags, b, k + 1)
Packed(flags, b) == PackedFrom(flags, b, 0)

----------------------------------------------------------------------------
(* Frame codec: C22, checked under SpecCodec.                               *)

\* C22: codec round trip. Decoding the 32-byte frame encoded from a vector of
\* 16 values in 0..65535 with the reverse, big-endian 16-bit decoder returns
\* the 16 values of the vector, in order.
C22_CodecRoundTrip ==
    codecBack # <<>> =>
        /\ Len(codecOut) = SentFrameLen
        /\ DOMAIN codecBack = Slots
        /\ \A i \in Slots : codecBack[i] = codecIn[i]

\* C22 witness: a vector holding the largest value and values whose two
\* bytes differ went through the round trip.
C22_Witness ==
    /\ codecBack # <<>>
    /\ \E i \in Slots : codecIn[i] = 65535
    /\ \E i \in Slots : codecIn[i] = 256

----------------------------------------------------------------------------
(* Parameter Store: C23, checked under SpecVector.                          *)

\* A setValue with a slot or a value outside its range.
InvalidSetValue ==
    /\ lastOp' # lastOp
    /\ lastOp'.op = "setValue"
    /\ (lastOp'.arg \notin Slots \/ lastOp'.pre \notin ValueRange)

VectorInRange(v) == DOMAIN v = Slots /\ \A i \in Slots : v[i] \in ValueRange

\* An invalid setValue is rejected and leaves the vector unchanged.
InvalidSetValueRejected ==
    [][InvalidSetValue => lastOp'.tag = "rejected" /\ inputs' = inputs]_vars

\* C23: ParameterVector invariant. After any sequence of setValue calls and
\* settings loads the vector has exactly 16 slots, each holding an integer in
\* 0..65535; a setValue with a slot outside 0..15 or a value outside 0..65535
\* is rejected and leaves the vector unchanged.
C23_VectorInvariant ==
    [][ /\ VectorInRange(inputs')
        /\ InvalidSetValue => lastOp'.tag = "rejected" /\ inputs' = inputs
      ]_vars

----------------------------------------------------------------------------
(* Command controls while not connected: C24, checked under SpecCommand.    *)

\* A click or a switch change handled while isConnected is false.
HandledWhileDisconnected ==
    /\ ~isConnected
    /\ lastOp' # lastOp
    /\ lastOp'.op \in {"rejected", "issue"}

\* C24: commands are rejected while not connected. handleCommandClick and
\* handleSwitchChange then change neither currentCommand nor
\* waitingForAcknowledgment nor the enabled or active state of any button or
\* switch, and set no command; a toggled switch is back at its previous
\* checked state.
C24_RejectedWhileDisconnected ==
    [][HandledWhileDisconnected =>
          /\ lastOp'.op = "rejected"
          /\ UNCHANGED <<currentCommand, waitingForAcknowledgment>>
          /\ UNCHANGED <<btnDisabled, btnActive, switchDisabled>>
          /\ switchChecked' = switchChecked
          /\ inputs' = inputs
      ]_vars

\* C24 witness: the change of a switch to ON was rejected, the switch is off
\* again, and the session is up with its status event not yet delivered.
C24_Witness ==
    /\ ~isConnected
    /\ NumLive > 0
    /\ lastOp.op = "rejected"
    /\ \E s \in Switches : lastOp.arg = SwitchCmd(s, TRUE) /\ ~switchChecked[s]

----------------------------------------------------------------------------
(* A Pending command over the end of its session: C25, checked under        *)
(* SpecLifecycle.                                                           *)

\* C25: a Pending command does not survive its session. A command that was
\* Pending when the session was found closed (isConnected false) is no longer
\* there when a session is Connected again: the command slot is 0 and
\* waitingForAcknowledgment is false, so no frame of the new session carries
\* the stale id.
C25_PendingDoesNotSurvive ==
    [][ (~isConnected /\ session # "Connected" /\ session' = "Connected") =>
            inputs'[CommandSlot] = 0 /\ ~waitingForAcknowledgment'
      ]_vars

----------------------------------------------------------------------------
(* Power switches while disconnected: C26, checked under SpecSwitches.      *)

AllSwitchesDisabled == \A s \in Switches : switchDisabled[s]

\* A step that handles a connection-status event with connected = false.
StatusFalseHandled ==
    /\ ipcQueue # <<>>
    /\ Head(ipcQueue).type = "status"
    /\ ~Head(ipcQueue).connected
    /\ ipcQueue' = Tail(ipcQueue)

\* C26: the switches are never enabled while disconnected. Handling a
\* connection-status event with connected = false leaves isConnected false
\* and both switches disabled, and from then on no step that leaves
\* isConnected false (an enableAll, a handleAcknowledgment, a
\* 'power-switches:enable' event) enables a switch.
C26_SwitchesStayDisabled ==
    [][ /\ StatusFalseHandled => ~isConnected' /\ AllSwitchesDisabled'
        /\ (~isConnected /\ AllSwitchesDisabled /\ ~isConnected') => AllSwitchesDisabled'
      ]_vars

\* C26 witness: 'power-switches:enable' was handled after the disconnection
\* of a session on which a switch had been turned on, and both switches are
\* disabled.
C26_Witness ==
    /\ ~isConnected
    /\ lastOp.op = "enableAll"
    /\ AllSwitchesDisabled
    /\ \E s \in Switches : switchChecked[s]

----------------------------------------------------------------------------
(* connect() and its outcome: C27, checked under SpecConnection.            *)

\* A step in which connect() ran.
ConnectRan == lastOp' # lastOp /\ lastOp'.op = "connect"

\* C27: connect() never throws and reports its outcome exactly once: it
\* emits CONNECTION_STATUS {connected: true} if and only if it returns
\* success, and otherwise emits CONNECTION_ERROR and returns {success:
\* false}; with invalid settings it fails without invoking the transport.
C27_ConnectOutcome ==
    [][ConnectRan =>
          /\ lastOp'.tag \in {"success", "failed", "noMethod", "invalid"}
          /\ lastOp'.arg + lastOp'.pre = 1
          /\ (lastOp'.arg = 1 <=> lastOp'.tag = "success")
          /\ (lastOp'.tag # "success" => lastOp'.pre = 1)
          /\ (lastOp'.tag = "invalid" => UNCHANGED mainVars)
      ]_vars

\* C27 witness: connect() failed on invalid UDP settings while a session is
\* up, which is left as it was.
C27_Witness ==
    /\ lastOp.op = "connect"
    /\ lastOp.tag = "invalid"
    /\ lastOp.proto = "udp"
    /\ lastOp.pre = 1
    /\ NumLive > 0

----------------------------------------------------------------------------
(* switchProtocol: C28, checked under SpecConnection.                       *)

\* A step in which switchProtocol ran.
SwitchRan == lastOp' # lastOp /\ lastOp'.op = "switchProtocol"

\* C28: switchProtocol changes state only on success. If the requested
\* protocol is the current one, is not 'tcp' or 'udp', is refused by the main
\* process, or the call throws, currentProtocol is unchanged and no
\* PROTOCOL_CHANGED event is emitted; for an equal or invalid protocol the
\* main process is not contacted.
C28_SwitchOnlyOnSuccess ==
    [][SwitchRan =>
          /\ (lastOp'.proto = currentProtocol \/ lastOp'.proto \notin Protocols) =>
                 /\ currentProtocol' = currentProtocol
                 /\ lastOp'.arg = 0
                 /\ lastOp'.pre = 0
                 /\ UNCHANGED mainVars
          /\ lastOp'.arg = 0 => currentProtocol' = currentProtocol
          /\ lastOp'.arg = 1 => (lastOp'.pre = 1 /\ currentProtocol' = lastOp'.proto)
          /\ currentProtocol' # currentProtocol => lastOp'.arg = 1
      ]_vars

\* C28 witness: a switch from 'tcp' to 'udp' ended without success and the
\* protocol is still 'tcp'.
C28_Witness ==
    /\ lastOp.op = "switchProtocol"
    /\ lastOp.proto = "udp"
    /\ lastOp.tag \notin {"same", "invalid"}
    /\ lastOp.arg = 0
    /\ currentProtocol = "tcp"

----------------------------------------------------------------------------
(* The active protocol and its two copies: C29, C30, checked under          *)
(* SpecConnection.                                                          *)

\* C29: in every reachable state currentProtocol is 'tcp' or 'udp', after
\* any sequence of loadSettings, setCurrentProtocol, setProtocolFromSettings
\* and switchProtocol calls with arbitrary arguments and stored values; so
\* connect() and disconnect() never route an unknown value to the UDP branch.
C29_ProtocolAlwaysValid ==
    /\ currentProtocol \in Protocols
    /\ (ConnectMethod(currentProtocol) = "udpConnect" => currentProtocol = "udp")
    /\ (DisconnectMethod(currentProtocol) = "udpDisconnect" => currentProtocol = "udp")

\* C30: the two copies of the active protocol agree. After any sequence of
\* loadSettings, setCurrentProtocol, switchProtocol and
\* setProtocolFromSettings, SettingsManager.currentProtocol equals the state
\* manager's currentProtocol, so what saveSettings has just stored is the
\* protocol in use.
C30_ProtocolCopiesAgree ==
    /\ settingsProtocol = currentProtocol
    /\ (lastOp.op = "saveSettings" => storedProtocol = currentProtocol)

----------------------------------------------------------------------------
(* The preload bridge: C31, checked under SpecConnection.                   *)

\* The bridge methods ConnectionManager and ProtocolHandler call.
InvokedMethods ==
    {ConnectMethod(p) : p \in Protocols} \cup {DisconnectMethod(p) : p \in Protocols}
        \cup {"setProtocol"}

\* C31: every bridge method that ConnectionManager and ProtocolHandler invoke
\* (tcpConnect, udpConnect, tcpDisconnect, udpDisconnect, setProtocol) is
\* among the methods the preload bridge exposes, so no connect() with valid
\* settings fails on a missing method.
C31_BridgeMethodsExposed ==
    /\ InvokedMethods \subseteq ExposedMethods
    /\ (lastOp.op = "connect" => lastOp.tag # "noMethod")

----------------------------------------------------------------------------
(* Theme synchronisation: C32, checked under SpecTheme.                     *)

\* A step in which the onThemeChanged listener of window w runs.
ThemeReceived(w) == themeChanged[w] # <<>> /\ themeChanged'[w] = Tail(themeChanged[w])

ThemeQuiet == setThemeCalls = <<>> /\ \A w \in Windows : themeChanged[w] = <<>>

\* C32: theme synchronisation does not echo. A theme received through
\* onThemeChanged is applied without calling setTheme on the bridge, and is
\* ignored when it equals the current theme; one toggle in one window
\* produces a bounded number of messages and, once they are delivered, leaves
\* every window on the same theme.
C32_ThemeNoEcho ==
    [][ /\ \A w \in Windows :
             ThemeReceived(w) =>
                 /\ setThemeCalls' = setThemeCalls
                 /\ themeOf'[w] = Head(themeChanged[w])
                 /\ (Head(themeChanged[w]) = themeOf[w] => themeOf' = themeOf)
        /\ themeToggles' = 1 => themeSent' <= 1 + NumWindows
        /\ (themeToggles' = 1 /\ ThemeQuiet') =>
               \A v, w \in Windows : themeOf'[v] = themeOf'[w]
      ]_vars

\* C32 witness: one toggle was made, every message it caused is delivered,
\* and the windows are on the bright theme.
C32_Witness ==
    /\ themeToggles = 1
    /\ ThemeQuiet
    /\ themeSent > 1
    /\ \A w \in Windows : themeOf[w] = "bright"

----------------------------------------------------------------------------
(* Logger: C33, checked under SpecLogger.                                   *)

\* A call of log() with the container attached.
LogCalled == logAttached /\ logCount' = logCount + 1

Min(a, b) == IF a < b THEN a ELSE b

\* C33: bounded log. After every call to log() with a container attached the
\* container holds at most maxLogEntries entries, also after setMaxEntries
\* lowered the limit; the entries kept are the most recently logged messages
\* in logging order, the oldest being evicted first and no more than needed.
C33_BoundedLog ==
    [][LogCalled =>
          LET n == Len(logEntries')
          IN  /\ n <= maxLogEntries'
              /\ n = Min(maxLogEntries', Len(logEntries) + 1)
              /\ \A i \in 1 .. n : logEntries'[i] = logCount' - n + i
      ]_vars

\* C33 witness: the limit was lowered below the number of entries, and the
\* next log() left the newest messages only.
C33_Witness ==
    /\ logAttached
    /\ maxLogEntries = 2
    /\ logCount = MaxLogs
    /\ logEntries = <<logCount - 1, logCount>>

====
